---- MODULE Spec2Model ----
(***************************************************************************)
(* PKCS#7 padding (package pkcs7): Pad and Unpad over Go byte slices.      *)
(*                                                                         *)
(* A Go slice is a header (backing array, offset, length, capacity) over   *)
(* an array on the heap.  Pad ends in append(src, padding...), which       *)
(* writes into src's backing array when its capacity suffices and copies   *)
(* to a new array otherwise; Unpad returns a sub-slice of its argument.    *)
(* Both are modelled on that heap, so that results can be compared both    *)
(* by value and by the storage they share.                                 *)
(***************************************************************************)
EXTENDS Integers, Sequences, FiniteSets

VARIABLES
    heap,      \* the backing arrays: heap[a] is the sequence of bytes of array a
    src,       \* the slice header the caller passes to Pad / Unpad
    call,      \* the record of the last call made (op = "none" before any)
    results,   \* what every successful Pad call so far returned: header and bytes
    ncalls     \* number of calls made

vars == <<heap, src, call, results, ncalls>>

-----------------------------------------------------------------------------
(* Bounds of the model and constants of the program *)

MaxLen == 3         \* longest buffer the caller allocates
MaxByte == 2        \* the caller fills buffers with bytes 0..MaxByte, and 255
MaxBlock == 4       \* block sizes tried: 1..MaxBlock, and -1, 0, 255, 256
MaxSpare == 1       \* spare capacity the runtime may give an array append allocates
MaxCalls == 2       \* calls in a sequence of calls (SpecSeq)

MaxBlockSize == 255 \* pkcs7.go: blockSize > 255 is rejected
ByteRange == 256    \* byte(x) keeps x modulo 256

Bytes == (0..MaxByte) \cup {ByteRange - 1}
BlockSizes == {-1, 0, MaxBlockSize, MaxBlockSize + 1} \cup (1..MaxBlock)

RECURSIVE SeqsUpTo(_, _)
SeqsUpTo(S, n) ==
    IF n = 0 THEN {<<>>}
    ELSE LET shorter == SeqsUpTo(S, n - 1)
         IN  shorter \cup {Append(s, b) : s \in {t \in shorter : Len(t) = n - 1}, b \in S}

-----------------------------------------------------------------------------
(* Go slices *)

\* The nil slice: no backing array.
NilSlice == [arr |-> 0, off |-> 0, len |-> 0, cap |-> 0]

\* The bytes a slice holds.
SliceBytes(h, s) == [i \in 1..s.len |-> h[s.arr][s.off + i]]

\* s[lo:hi] is legal when 0 <= lo <= hi <= cap(s); otherwise Go panics.
SliceInRange(s, lo, hi) == 0 <= lo /\ lo <= hi /\ hi <= s.cap

\* s[lo:hi]: same array, shifted offset, capacity to the end of the array.
SubSlice(s, lo, hi) ==
    [arr |-> s.arr, off |-> s.off + lo, len |-> hi - lo, cap |-> s.cap - lo]

\* s[i] is legal when 0 <= i < len(s); otherwise Go panics.
IndexInRange(s, i) == 0 <= i /\ i < s.len

\* s[i], 0-based.
Index(h, s, i) == h[s.arr][s.off + i + 1]

\* byte(x) for an int x.
ToByte(x) == x % ByteRange

\* bytes.Repeat(b, count): count copies of b, one after the other.
Repeat(b, count) == [i \in 1..(Len(b) * count) |-> b[((i - 1) % Len(b)) + 1]]

\* n zero bytes: the part of a fresh array that nothing has written yet.
Zeros(n) == [i \in 1..n |-> 0]

\* append(s, data...).  With room in s's array the bytes are written in place,
\* right after s's end, and the result shares the array.  Without room a new
\* array is allocated, of at least the needed length (spare is what the runtime
\* adds on top), and s's bytes and data are copied to it.
AppendSlice(h, s, data, spare) ==
    LET n == s.len + Len(data)
    IN  IF n <= s.cap
        THEN [heap |-> IF Len(data) = 0 THEN h
                       ELSE [h EXCEPT ![s.arr] =
                               [i \in 1..Len(h[s.arr]) |->
                                   IF i > s.off + s.len /\ i <= s.off + n
                                   THEN data[i - s.off - s.len]
                                   ELSE h[s.arr][i]]],
              ret  |-> [s EXCEPT !.len = n]]
        ELSE [heap |-> Append(h, SliceBytes(h, s) \o data \o Zeros(spare)),
              ret  |-> [arr |-> Len(h) + 1, off |-> 0, len |-> n, cap |-> n + spare]]

-----------------------------------------------------------------------------
(* Errors: errors.New(text); a text is kept as its leading part, which names *)
(* the kind of failure, and the parenthesised detail that follows it.       *)

NoErr == <<>>
ErrBlockSize == <<"pkcs7: block size must be between 1 and 255 inclusive">>
ErrEmpty == <<"pkcs7: source must not be empty slice">>
\* Variant of ErrZeroPad: the zero check reports a text of its own.
ErrZeroPadOwnText == <<"pkcs7: invalid padding", "(last byte is zero)">>
ErrZeroPad == <<"pkcs7: invalid padding", "(last byte does not match padding)">>
ErrTooLong == <<"pkcs7: invalid padding", "(last byte is larger than total length)">>
ErrMismatch == <<"pkcs7: invalid padding", "(last byte does not match padding)">>

-----------------------------------------------------------------------------
(* Pad *)

\* Variant of BadBlockSize: the upper limit is off by one (blockSize > 256).
BadBlockSizeOffByOne(blockSize) == blockSize < 1 \/ blockSize > MaxBlockSize + 1

\* blockSize < 1 || blockSize > 255
BadBlockSize(blockSize) == blockSize < 1 \/ blockSize > MaxBlockSize

\* Variant of PadLen: no padding for a source that already fills its blocks.
PadLenNoFullBlock(length, blockSize) == (blockSize - (length % blockSize)) % blockSize

\* padLen := blockSize - len(src)%blockSize
PadLen(length, blockSize) == blockSize - (length % blockSize)

\* Variant of Padding: zero bytes instead of bytes of value padLen.
PaddingZero(padLen) == Repeat(<<0>>, padLen)

\* padding := bytes.Repeat([]byte{byte(padLen)}, padLen)
Padding(padLen) == Repeat(<<ToByte(padLen)>>, padLen)

Pad(h, s, blockSize, spare) ==
    IF BadBlockSize(blockSize)
    THEN [heap |-> h, ret |-> NilSlice, err |-> ErrBlockSize]
    ELSE LET padLen == PadLen(s.len, blockSize)
             app == AppendSlice(h, s, Padding(padLen), spare)
         IN  [heap |-> app.heap, ret |-> app.ret, err |-> NoErr]

-----------------------------------------------------------------------------
(* Unpad *)

\* The outcome of a call of Unpad: what it returns, the positions of src it
\* read (0-based), the number of times the loop body ran, and whether an index
\* or slice expression was out of range (a run-time panic).
Outcome(ret, err, reads, iters, panic) ==
    [ret |-> ret, err |-> err, reads |-> reads, iters |-> iters, panic |-> panic]

\* length <= 0
EmptySource(length) == length <= 0

\* Variant of ZeroPad: the check for a last byte of 0 is left out.
ZeroPadIgnored(padLen) == FALSE

\* padLen == 0x00
ZeroPad(padLen) == padLen = 0

\* Variants of PadTooLong: padding that fills the whole sequence is refused
\* (>= for >), and padding one byte longer than the sequence is let through.
PadTooLongOffByOne(padLen, length) == padLen >= length
PadTooLongSlack(padLen, length) == padLen > length + 1

\* padLen > length
PadTooLong(padLen, length) == padLen > length

\* Variant of CheckPadding: the last byte is trusted, the loop is left out.
CheckPaddingSkipped(h, padding, padLen) ==
    [match |-> TRUE, iters |-> 0, panic |-> FALSE]

\* for i := 0; i < padLen; i++ { if padding[i] != byte(padLen) { return error } }
\* The loop leaves at the first i in 0..padLen-1 where padding[i] is out of
\* range (a panic) or differs from byte(padLen) (the error), and runs to the end
\* when there is none: whether every byte matched, how many times the body ran,
\* and whether it panicked.
CheckPadding(h, padding, padLen) ==
    LET stops == {i \in 0..(padLen - 1) :
                     \/ ~IndexInRange(padding, i)
                     \/ Index(h, padding, i) # ToByte(padLen)}
    IN  IF stops = {}
        THEN [match |-> TRUE, iters |-> IF padLen > 0 THEN padLen ELSE 0, panic |-> FALSE]
        ELSE LET first == CHOOSE i \in stops : \A j \in stops : i <= j
             IN  [match |-> FALSE, iters |-> first + 1,
                  panic |-> ~IndexInRange(padding, first)]

Unpad(h, s) ==
    LET length == s.len
    IN  IF EmptySource(length) THEN Outcome(NilSlice, ErrEmpty, {}, 0, FALSE)
        ELSE IF ~IndexInRange(s, length - 1)
             THEN Outcome(NilSlice, NoErr, {length - 1}, 0, TRUE)
        ELSE
        LET padLen == Index(h, s, length - 1)
            last == {length - 1}
        IN  IF ZeroPad(padLen) THEN Outcome(NilSlice, ErrZeroPad, last, 0, FALSE)
            ELSE IF PadTooLong(padLen, length)
                 THEN Outcome(NilSlice, ErrTooLong, last, 0, FALSE)
            ELSE
            LET origLen == length - padLen
            IN  IF ~SliceInRange(s, origLen, length)
                THEN Outcome(NilSlice, NoErr, last, 0, TRUE)
                ELSE
                LET padding == SubSlice(s, origLen, length)
                    loop == CheckPadding(h, padding, padLen)
                    reads == last \cup {origLen + j : j \in 0..(loop.iters - 1)}
                IN  IF loop.panic THEN Outcome(NilSlice, NoErr, reads, loop.iters, TRUE)
                    ELSE IF ~loop.match
                         THEN Outcome(NilSlice, ErrMismatch, reads, loop.iters, FALSE)
                    ELSE IF ~SliceInRange(s, 0, origLen)
                         THEN Outcome(NilSlice, NoErr, reads, loop.iters, TRUE)
                    ELSE Outcome(SubSlice(s, 0, origLen), NoErr, reads, loop.iters, FALSE)

-----------------------------------------------------------------------------
(* The caller *)

NoCall ==
    [op |-> "none", src |-> NilSlice, blockSize |-> 0, ret |-> NilSlice,
     err |-> NoErr, before |-> <<>>, reads |-> {}, iters |-> 0, panic |-> FALSE]

\* The caller holds nil, or a slice buf[lo:hi] of a buffer it has filled.
Init ==
    /\ \/ heap = <<>> /\ src = NilSlice
       \/ \E data \in SeqsUpTo(Bytes, MaxLen) :
            \E lo \in 0..Len(data) : \E hi \in lo..Len(data) :
               /\ heap = <<data>>
               /\ src = SubSlice([arr |-> 1, off |-> 0, len |-> Len(data),
                                  cap |-> Len(data)], lo, hi)
    /\ call = NoCall
    /\ results = {}
    /\ ncalls = 0

\* o, err := Pad(src, blockSize)
PadCall(blockSize, spare) ==
    LET r == Pad(heap, src, blockSize, spare)
    IN  /\ heap' = r.heap
        /\ call' = [op |-> "Pad", src |-> src, blockSize |-> blockSize,
                    ret |-> r.ret, err |-> r.err, before |-> heap,
                    reads |-> {}, iters |-> 0, panic |-> FALSE]
        /\ results' = IF r.err = NoErr
                      THEN results \cup {[ret |-> r.ret, bytes |-> SliceBytes(r.heap, r.ret)]}
                      ELSE results
        /\ ncalls' = ncalls + 1
        /\ UNCHANGED src

\* o, err := Unpad(src)
UnpadCall ==
    LET r == Unpad(heap, src)
    IN  /\ call' = [op |-> "Unpad", src |-> src, blockSize |-> 0,
                    ret |-> r.ret, err |-> r.err, before |-> heap,
                    reads |-> r.reads, iters |-> r.iters, panic |-> r.panic]
        /\ ncalls' = ncalls + 1
        /\ UNCHANGED <<heap, src, results>>

\* The caller goes on with the slice the last call returned.
Adopt ==
    /\ call.op # "none"
    /\ call.err = NoErr
    /\ ~call.panic
    /\ src # call.ret
    /\ src' = call.ret
    /\ UNCHANGED <<heap, call, results, ncalls>>

\* One call on the caller's slice.
FirstPad == ncalls = 0 /\ \E blockSize \in BlockSizes : \E spare \in 0..MaxSpare : PadCall(blockSize, spare)
FirstUnpad == ncalls = 0 /\ UnpadCall

Next == FirstPad \/ FirstUnpad

Spec == Init /\ [][Next]_vars

\* A sequence of calls, each on the caller's slice or on an earlier result.
NextPad == ncalls < MaxCalls /\ \E blockSize \in BlockSizes : \E spare \in 0..MaxSpare : PadCall(blockSize, spare)
NextUnpad == ncalls < MaxCalls /\ UnpadCall

NextSeq == NextPad \/ NextUnpad \/ Adopt

SpecSeq == Init /\ [][NextSeq]_vars

-----------------------------------------------------------------------------
(* What the claims speak of *)

\* The bytes of the argument of the last call, when the call was made.
SrcBytes == SliceBytes(call.before, call.src)

\* The bytes of the slice the last call returned, as they are now.
RetBytes == SliceBytes(heap, call.ret)

\* The caller's probes: every byte sequence of length at most 2, each in a
\* buffer of its own.
Probes == SeqsUpTo(Bytes, 2)
Whole(q) == [arr |-> 1, off |-> 0, len |-> Len(q), cap |-> Len(q)]
PadOf(q, blockSize) ==
    LET r == Pad(<<q>>, Whole(q), blockSize, 0) IN SliceBytes(r.heap, r.ret)

\* The kinds of failure, read off the text of the error.
IsInvalidBlockSize(e) == e = <<"pkcs7: block size must be between 1 and 255 inclusive">>
IsEmptyInput(e) == e = <<"pkcs7: source must not be empty slice">>
IsInvalidPadding(e) == Len(e) >= 1 /\ e[1] = "pkcs7: invalid padding"

PadCalled == call.op = "Pad"
UnpadCalled == call.op = "Unpad"
ValidBlock == call.blockSize >= 1 /\ call.blockSize <= 255

-----------------------------------------------------------------------------
\* C1: round trip.  For every source s and blockSize in 1..255, Pad succeeds,
\* and Unpad of what Pad returned succeeds and returns exactly the bytes of s.
C1_RoundTrip ==
    (PadCalled /\ ValidBlock) =>
        /\ call.err = NoErr
        /\ LET u == Unpad(heap, call.ret)
           IN  /\ u.err = NoErr
               /\ ~u.panic
               /\ SliceBytes(heap, u.ret) = SrcBytes

\* A source that itself ends in a byte that looks like padding went round.
C1_Witness ==
    /\ PadCalled /\ ValidBlock
    /\ Len(SrcBytes) >= 2 /\ SrcBytes[Len(SrcBytes)] = 1
    /\ SliceBytes(heap, Unpad(heap, call.ret).ret) = SrcBytes

\* C2: Pad returns s followed by exactly padLen bytes of value padLen, with
\* padLen = blockSize - (len(s) mod blockSize) in 1..blockSize; a source whose
\* length is a multiple of blockSize gets a full block of bytes blockSize.
C2_PadAppendsPadding ==
    (PadCalled /\ ValidBlock) =>
        LET n == Len(SrcBytes)
            padLen == call.blockSize - (n % call.blockSize)
        IN  /\ padLen >= 1 /\ padLen <= call.blockSize
            /\ RetBytes = SrcBytes \o [i \in 1..padLen |-> padLen]
            /\ (n % call.blockSize = 0) =>
                  /\ Len(RetBytes) = n + call.blockSize
                  /\ \A i \in (n + 1)..(n + call.blockSize) : RetBytes[i] = call.blockSize

\* A non-empty source of a length that is a multiple of blockSize was padded.
C2_Witness ==
    /\ PadCalled /\ call.blockSize = 2 /\ Len(SrcBytes) = 2
    /\ Len(RetBytes) = 4 /\ RetBytes[3] = 2 /\ RetBytes[4] = 2

\* C3: the length of what Pad returns is a multiple of blockSize, strictly
\* greater than len(s), and greater by at most blockSize.
C3_PadLength ==
    (PadCalled /\ ValidBlock) =>
        /\ call.ret.len % call.blockSize = 0
        /\ call.ret.len > call.src.len
        /\ call.ret.len - call.src.len <= call.blockSize

\* A source of 3 bytes was padded to blocks of 3.
C3_Witness ==
    /\ PadCalled /\ call.blockSize = 3 /\ call.src.len = 3
    /\ call.ret.len = 6

\* C4: Pad fails, with the block size error and returning nil, exactly when
\* blockSize < 1 or blockSize > 255; for blockSize in 1..255 it succeeds.
C4_BlockSizeChecked ==
    PadCalled =>
        /\ IsInvalidBlockSize(call.err) <=> (call.blockSize < 1 \/ call.blockSize > 255)
        /\ IsInvalidBlockSize(call.err) => (call.ret = NilSlice /\ heap = call.before)
        /\ ValidBlock => (call.err = NoErr /\ call.ret # NilSlice)

\* Block size 256 was refused.
C4_Witness ==
    /\ PadCalled /\ call.blockSize = 256 /\ call.src.len > 0
    /\ IsInvalidBlockSize(call.err) /\ call.ret = NilSlice

\* C5: Unpad of the empty sequence fails with the empty input error; with n
\* the last byte of p, it fails with invalid padding if n = 0, n > len(p) or
\* one of the last n bytes differs from n; otherwise it succeeds and returns
\* the first len(p) - n bytes of p.  A failing call returns nil.
C5_UnpadOutcome ==
    UnpadCalled =>
        LET p == SrcBytes
            len == Len(p)
        IN  IF len = 0
            THEN IsEmptyInput(call.err) /\ call.ret = NilSlice
            ELSE IF \/ p[len] = 0
                    \/ p[len] > len
                    \/ \E i \in (len - p[len] + 1)..len : p[i] # p[len]
                 THEN IsInvalidPadding(call.err) /\ call.ret = NilSlice
                 ELSE /\ call.err = NoErr
                      /\ RetBytes = SubSeq(p, 1, len - p[len])

\* A sequence whose padding was tampered with, not in its last byte, was refused.
C5_Witness ==
    /\ UnpadCalled /\ Len(SrcBytes) = 3
    /\ SrcBytes[3] = 2 /\ SrcBytes[2] # 2
    /\ IsInvalidPadding(call.err)

\* C6 as stated: any two sequences that Unpad refuses as invalid padding get
\* the same error.
C6_UniformError ==
    (UnpadCalled /\ IsInvalidPadding(call.err)) =>
        \A q \in Probes :
            LET u == Unpad(<<q>>, Whole(q))
            IN  IsInvalidPadding(u.err) => u.err = call.err

\* C6 as amended: every invalid padding error starts with the same text,
\* "pkcs7: invalid padding"; a last byte of 0 and a mismatching padding byte
\* are reported with one and the same text, a last byte greater than the
\* length with a text of its own.
C6_ErrorTexts ==
    (UnpadCalled /\ Len(SrcBytes) > 0 /\ call.err # NoErr) =>
        LET p == SrcBytes
            n == p[Len(p)]
        IN  /\ call.err[1] = "pkcs7: invalid padding"
            /\ (n # 0 /\ n > Len(p)) =>
                  call.err[2] = "(last byte is larger than total length)"
            /\ (n = 0 \/ n <= Len(p)) =>
                  call.err[2] = "(last byte does not match padding)"

\* A last byte greater than the length was refused, with the text of its own.
C6_Witness ==
    /\ UnpadCalled /\ Len(SrcBytes) = 2 /\ SrcBytes[2] = 255
    /\ call.err = <<"pkcs7: invalid padding", "(last byte is larger than total length)">>

\* C7: after a call of Pad or Unpad every byte of the caller's buffers,
\* those behind the end of src included, has the value it had before.
C7_InputNotCorrupted ==
    (call.op # "none") =>
        \A a \in 1..Len(call.before) : heap[a] = call.before[a]

\* C8: what a Pad call returned is never written by another call: every
\* result stays equal to its source followed by its own padding.
C8_ResultsNotOverwritten ==
    \A r \in results : SliceBytes(heap, r.ret) = r.bytes

\* C9: when Unpad(p) succeeds, removing n bytes and returning s, then
\* Pad(s, blockSize) returns p for every blockSize in n..255 that divides
\* len(p); among the sequences of a length that blockSize divides and with a
\* last byte of at most blockSize, Unpad accepts exactly the results of
\* Pad(., blockSize); and Pad(., blockSize) is injective.
C9_PartialInverse ==
    /\ UnpadCalled =>
          LET p == SrcBytes
              n == Len(p) - call.ret.len
          IN  \A blockSize \in 1..255 :
                 /\ (call.err = NoErr /\ n <= blockSize /\ Len(p) % blockSize = 0) =>
                       LET r == Pad(heap, call.ret, blockSize, 0)
                       IN  r.err = NoErr /\ SliceBytes(r.heap, r.ret) = p
                 /\ (Len(p) > 0 /\ Len(p) % blockSize = 0 /\ p[Len(p)] <= blockSize) =>
                       (call.err = NoErr <=>
                           \E k \in 0..(Len(p) - 1) : PadOf(SubSeq(p, 1, k), blockSize) = p)
    /\ (PadCalled /\ ValidBlock) =>
          \A q \in Probes : PadOf(q, call.blockSize) = RetBytes => q = SrcBytes

\* Unpad accepted a sequence of two bytes, and block size 2 pads what it
\* returned back to that sequence.
C9_Witness ==
    /\ UnpadCalled /\ call.err = NoErr /\ Len(SrcBytes) = 2 /\ call.ret.len = 1
    /\ PadOf(RetBytes, 2) = SrcBytes

\* C10: Unpad reads and slices within 0..len(p) only: nothing of the empty
\* sequence, the last byte otherwise, and in the loop only positions
\* origLen..len(p)-1 with origLen >= 0; the loop body runs at most padLen <= 255
\* times; and the call returns a sequence or an error.
C10_UnpadMemorySafe ==
    UnpadCalled =>
        LET len == call.src.len
        IN  /\ ~call.panic
            /\ call.reads \subseteq 0..(len - 1)
            /\ (len = 0) => (call.reads = {} /\ call.iters = 0)
            /\ (len > 0) =>
                  LET padLen == SrcBytes[len]
                  IN  /\ (len - 1) \in call.reads
                      /\ call.iters <= padLen /\ padLen <= 255
                      /\ (call.iters > 0) =>
                            /\ len - padLen >= 0
                            /\ call.reads \subseteq (len - padLen)..(len - 1)
            /\ Cardinality(call.reads) <= call.iters + 1
            /\ (call.err = NoErr) =>
                  /\ call.ret # NilSlice
                  /\ call.ret.off + call.ret.len <= Len(heap[call.ret.arr])

\* A single byte greater than the length, and a last byte of 255, were handled.
C10_Witness ==
    /\ UnpadCalled /\ call.src.len = 1 /\ SrcBytes[1] = 255
    /\ ~call.panic /\ call.reads = {0}

====
